---- MODULE Spec2Model ----
(***************************************************************************)
(* hello_world.rs: a Bevy 0.4 application with two startup systems         *)
(* (place_denizens, spawn_denizens) and one per-frame system (say_hello).  *)
(*                                                                         *)
(* Time is counted in ticks of 1/TicksPerSecond second; the f32 seconds of *)
(* the program are modelled as whole numbers of ticks.                     *)
(***************************************************************************)
EXTENDS Naturals, Integers, Sequences, FiniteSets, TLC

\* ------------------------------------------------------------------ bounds
\* Resolution of the modelled clock: ticks per second.
TicksPerSecond == 2
\* The longest frame delta, in whole timer intervals (plus one tick).
MaxIntervals == 2
\* Run counters saturate here (they only observe; they guard nothing).
MaxRuns == 2

\* ------------------------------------------------------- program constants
\* Faulty variant: the timer built with Timer::from_seconds(2.0, false).
HelloOneShot == FALSE

\* Timer::from_seconds(2.0, true): the interval in seconds, and repeating.
HelloSeconds == 2
HelloRepeating == TRUE

Duration == HelloSeconds * TicksPerSecond
MaxDelta == MaxIntervals * Duration + 1
\* time.delta_seconds() of a frame: a positive time. (The first frame of a
\* run reports 0, which leaves the untouched timer as it is; it is left out.)
Deltas == 1..MaxDelta

Min(a, b) == IF a <= b THEN a ELSE b

\* ------------------------------------------------------------------- main
\* HashMap::<Name, World>::new(): the empty map (a function with no keys).
EmptyMap == [n \in {} |-> "Earth"]

\* Faulty variant: the two startup systems registered in the opposite order.
startup_systems_swapped == <<"spawn_denizens", "place_denizens">>

\* The startup systems, in registration order.
startup_systems == <<"place_denizens", "spawn_denizens">>

\* HelloTimer(Timer::from_seconds(2.0, true)) before its first tick.
HelloTimer ==
    [elapsed |-> 0, duration |-> Duration, finished |-> FALSE,
     just_finished |-> FALSE, repeating |-> HelloRepeating]

VARIABLES
    stage,      \* "startup": the startup schedule runs; "update": the frame loop
    idx,        \* index in startup_systems of the system to run (Len+1: all ran)
    placeI,     \* number of inserts place_denizens has executed in its run
    spawnPc,    \* spawn_denizens: "clone" (before the loop) or "loop"
    iter,       \* the entries directory.clone().into_iter() still has to yield
    directory,  \* the HashMap<Name, World> resource
    commands,   \* the queued spawn commands, each the bundle to spawn
    entities,   \* the world's entities, in creation order; each a component map
    timer,      \* the HelloTimer resource
    printed,    \* the lines say_hello printed in the latest frame
    delta,      \* time.delta_seconds() of the latest frame, in ticks
    sinceFire,  \* time since the latest firing (or start), capped at Duration
    runs,       \* per system: how many runs it completed, capped at MaxRuns
    rounds      \* number of frames that printed greetings, capped at MaxRuns

vars == <<stage, idx, placeI, spawnPc, iter, directory, commands, entities,
          timer, printed, delta, sinceFire, runs, rounds>>

Systems == {"place_denizens", "spawn_denizens", "say_hello"}

Init ==
    /\ stage = "startup"
    /\ idx = 1
    /\ placeI = 0
    /\ spawnPc = "clone"
    /\ iter = EmptyMap
    /\ directory = EmptyMap
    /\ commands = <<>>
    /\ entities = <<>>
    /\ timer = HelloTimer
    /\ printed = <<>>
    /\ delta = 0
    /\ sinceFire = 0
    /\ runs = [s \in Systems |-> 0]
    /\ rounds = 0

\* The startup system the scheduler runs now ("none" when all have run).
Current ==
    IF stage = "startup" /\ idx <= Len(startup_systems)
    THEN startup_systems[idx] ELSE "none"

Ran(s) == [runs EXCEPT ![s] = Min(@ + 1, MaxRuns)]

\* --------------------------------------------------------- place_denizens
\* The three inserts of place_denizens, in program order.
placements == <<<<"Alice", "Venus">>, <<"Bevy", "Earth">>, <<"Cart", "Mars">>>>

\* HashMap::insert: adds the key or replaces its value.
insert(map, k, v) ==
    [n \in DOMAIN map \cup {k} |-> IF n = k THEN v ELSE map[n]]

\* One insert of place_denizens; the third one ends the system's run.
place_denizens ==
    /\ Current = "place_denizens"
    /\ directory' = insert(directory, placements[placeI + 1][1],
                                      placements[placeI + 1][2])
    /\ IF placeI + 1 = Len(placements)
       THEN /\ placeI' = 0
            /\ idx' = idx + 1
            /\ runs' = Ran("place_denizens")
       ELSE /\ placeI' = placeI + 1
            /\ UNCHANGED <<idx, runs>>
    /\ UNCHANGED <<stage, spawnPc, iter, commands, entities, timer, printed,
                   delta, sinceFire, rounds>>

\* --------------------------------------------------------- spawn_denizens
\* Faulty variant: the two branches of the if exchanged.
bundle_swapped(name, world) ==
    IF name = "Bevy"
    THEN [Name |-> name, World |-> world, Denizen |-> "Denizen"]
    ELSE [Name |-> name, World |-> world]

\* Faulty variant: every entry is spawned with the marker.
bundle_all(name, world) ==
    [Name |-> name, World |-> world, Denizen |-> "Denizen"]

\* The component tuple spawn_denizens spawns for one directory entry.
bundle(name, world) ==
    IF name = "Bevy"
    THEN [Name |-> name, World |-> world]
    ELSE [Name |-> name, World |-> world, Denizen |-> "Denizen"]

\* directory.clone().into_iter(): the loop iterates over a copy.
spawn_clone ==
    /\ Current = "spawn_denizens"
    /\ spawnPc = "clone"
    /\ iter' = directory
    /\ spawnPc' = "loop"
    /\ UNCHANGED <<stage, idx, placeI, directory, commands, entities, timer,
                   printed, delta, sinceFire, runs, rounds>>

\* Faulty variant: the loop drains the directory resource itself, not a clone.
spawn_next_drain ==
    /\ Current = "spawn_denizens"
    /\ spawnPc = "loop"
    /\ DOMAIN iter # {}
    /\ \E name \in DOMAIN iter :
          /\ commands' = Append(commands, bundle(name, iter[name]))
          /\ iter' = [n \in DOMAIN iter \ {name} |-> iter[n]]
          /\ directory' = [n \in DOMAIN directory \ {name} |-> directory[n]]
    /\ UNCHANGED <<stage, idx, placeI, spawnPc, entities, timer,
                   printed, delta, sinceFire, runs, rounds>>

\* Faulty variant: a spawn creates its entity at once instead of being queued.
spawn_next_immediate ==
    /\ Current = "spawn_denizens"
    /\ spawnPc = "loop"
    /\ DOMAIN iter # {}
    /\ \E name \in DOMAIN iter :
          /\ entities' = Append(entities, bundle(name, iter[name]))
          /\ iter' = [n \in DOMAIN iter \ {name} |-> iter[n]]
    /\ UNCHANGED <<stage, idx, placeI, spawnPc, directory, commands, timer,
                   printed, delta, sinceFire, runs, rounds>>

\* One iteration of the loop: the map yields any remaining entry (a HashMap
\* has no specified order) and its spawn is queued.
spawn_next ==
    /\ Current = "spawn_denizens"
    /\ spawnPc = "loop"
    /\ DOMAIN iter # {}
    /\ \E name \in DOMAIN iter :
          /\ commands' = Append(commands, bundle(name, iter[name]))
          /\ iter' = [n \in DOMAIN iter \ {name} |-> iter[n]]
    /\ UNCHANGED <<stage, idx, placeI, spawnPc, directory, entities, timer,
                   printed, delta, sinceFire, runs, rounds>>

\* The iterator is exhausted: spawn_denizens returns.
spawn_return ==
    /\ Current = "spawn_denizens"
    /\ spawnPc = "loop"
    /\ DOMAIN iter = {}
    /\ spawnPc' = "clone"
    /\ idx' = idx + 1
    /\ runs' = Ran("spawn_denizens")
    /\ UNCHANGED <<stage, placeI, iter, directory, commands, entities, timer,
                   printed, delta, sinceFire, rounds>>

spawn_denizens == spawn_clone \/ spawn_next \/ spawn_return

\* ------------------------------------------------------------- scheduler
\* The end of the startup stage: the queued commands are applied, each
\* spawn creating one entity, and the frame loop takes over.
apply_commands ==
    /\ stage = "startup"
    /\ idx > Len(startup_systems)
    /\ entities' = entities \o commands
    /\ commands' = <<>>
    /\ stage' = "update"
    /\ UNCHANGED <<idx, placeI, spawnPc, iter, directory, timer, printed,
                   delta, sinceFire, runs, rounds>>

\* -------------------------------------------------------------- say_hello
\* Timer::tick of Bevy 0.4 (bevy_core): elapsed grows by the delta; the
\* timer is finished when elapsed reached the duration, and just_finished
\* only if it was not finished by the previous tick; a repeating timer
\* wraps elapsed around and a non-repeating one clamps it.
tick(t, d) ==
    LET e == t.elapsed + d
        fin == e >= t.duration
    IN  [t EXCEPT !.elapsed = IF fin
                              THEN IF t.repeating THEN e % t.duration
                                   ELSE Min(e, t.duration)
                              ELSE e,
                  !.finished = fin,
                  !.just_finished = ~t.finished /\ fin]

\* Faulty variant: the query without its With<Denizen> filter.
Matches_unfiltered(e) == {"Name", "World"} \subseteq DOMAIN e

\* Query<(&Name, &World), With<Denizen>>: the entities that have the three
\* components.
Matches(e) == {"Name", "World", "Denizen"} \subseteq DOMAIN e

\* query.iter(): the (name, world) of every matching entity, in storage order.
query_iter(ents) ==
    LET m == SelectSeq(ents, Matches)
    IN  [i \in 1..Len(m) |-> [name |-> m[i].Name, world |-> m[i].World]]

\* println!("Hello {:?}, my name is {}!", *world, *name)
println(world, name) == "Hello " \o world \o ", my name is " \o name \o "!"

\* The lines one firing prints.
greetings(ents) ==
    LET q == query_iter(ents)
    IN  [i \in 1..Len(q) |-> println(q[i].world, q[i].name)]

\* The lines `n` rounds of greetings print.
RECURSIVE Repeat(_, _)
Repeat(lines, n) == IF n = 0 THEN <<>> ELSE lines \o Repeat(lines, n - 1)

\* Faulty variant: the greetings are printed without testing the timer.
say_hello_unconditional ==
    /\ stage = "update"
    /\ \E d \in Deltas :
          /\ delta' = d
          /\ timer' = tick(timer, d)
          /\ printed' = greetings(entities)
          /\ sinceFire' = IF timer'.just_finished THEN 0
                          ELSE Min(sinceFire + d, Duration)
          /\ rounds' = IF printed' # <<>> THEN Min(rounds + 1, MaxRuns)
                       ELSE rounds
    /\ runs' = Ran("say_hello")
    /\ UNCHANGED <<stage, idx, placeI, spawnPc, iter, directory, commands,
                   entities>>

\* Faulty variant: one round of greetings per interval the frame's delta completed.
say_hello_per_interval ==
    /\ stage = "update"
    /\ \E d \in Deltas :
          /\ delta' = d
          /\ timer' = tick(timer, d)
          /\ printed' = IF timer'.just_finished
                        THEN Repeat(greetings(entities),
                                    (timer.elapsed + d) \div Duration)
                        ELSE <<>>
          /\ sinceFire' = IF timer'.just_finished THEN 0
                          ELSE Min(sinceFire + d, Duration)
          /\ rounds' = IF printed' # <<>> THEN Min(rounds + 1, MaxRuns)
                       ELSE rounds
    /\ runs' = Ran("say_hello")
    /\ UNCHANGED <<stage, idx, placeI, spawnPc, iter, directory, commands,
                   entities>>

\* Faulty variant: an entity that was greeted loses its marker.
say_hello_unmark ==
    /\ stage = "update"
    /\ \E d \in Deltas :
          /\ delta' = d
          /\ timer' = tick(timer, d)
          /\ printed' = IF timer'.just_finished THEN greetings(entities)
                        ELSE <<>>
          /\ entities' = IF timer'.just_finished
                         THEN [i \in 1..Len(entities) |->
                                 [c \in DOMAIN entities[i] \ {"Denizen"} |->
                                     entities[i][c]]]
                         ELSE entities
          /\ sinceFire' = IF timer'.just_finished THEN 0
                          ELSE Min(sinceFire + d, Duration)
          /\ rounds' = IF printed' # <<>> THEN Min(rounds + 1, MaxRuns)
                       ELSE rounds
    /\ runs' = Ran("say_hello")
    /\ UNCHANGED <<stage, idx, placeI, spawnPc, iter, directory, commands>>

\* One frame: say_hello ticks the timer by the frame's delta and, if the
\* timer just finished, prints one line per queried entity.
say_hello ==
    /\ stage = "update"
    /\ \E d \in Deltas :
          /\ delta' = d
          /\ timer' = tick(timer, d)
          /\ printed' = IF timer'.just_finished THEN greetings(entities)
                        ELSE <<>>
          /\ sinceFire' = IF timer'.just_finished THEN 0
                          ELSE Min(sinceFire + d, Duration)
          /\ rounds' = IF printed' # <<>> THEN Min(rounds + 1, MaxRuns)
                       ELSE rounds
    /\ runs' = Ran("say_hello")
    /\ UNCHANGED <<stage, idx, placeI, spawnPc, iter, directory, commands,
                   entities>>

Next ==
    \/ place_denizens
    \/ spawn_denizens
    \/ apply_commands
    \/ say_hello

Spec == Init /\ [][Next]_vars

\* App::run loops for ever: the scheduler keeps running whatever is due.
LiveSpec == Spec /\ WF_vars(Next)

\* ---------------------------------------------------------------- claims
Worlds == {"Venus", "Earth", "Mars"}

\* The directory place_denizens builds.
TheDirectory ==
    [n \in {"Alice", "Bevy", "Cart"} |->
        CASE n = "Alice" -> "Venus" [] n = "Bevy" -> "Earth" [] n = "Cart" -> "Mars"]

\* The entities (indices) that carry the Denizen marker.
Denizens == {i \in 1..Len(entities) : "Denizen" \in DOMAIN entities[i]}

\* C1: once setup is over (both startup systems ran and the queued spawns
\* were applied) there are exactly three entities, each with a Name and a
\* World; exactly two of them, Alice and Cart, carry Denizen, and the third,
\* Bevy, does not; this holds in every later state.
C1_ThreeEntities ==
    stage = "update" =>
        /\ Len(entities) = 3
        /\ \A i \in 1..Len(entities) : {"Name", "World"} \subseteq DOMAIN entities[i]
        /\ Cardinality(Denizens) = 2
        /\ {entities[i].Name : i \in Denizens} = {"Alice", "Cart"}
        /\ \E i \in 1..Len(entities) \ Denizens : entities[i].Name = "Bevy"

\* C1 witness: frames have run, with and without greetings, after setup.
C1_Witness ==
    /\ stage = "update"
    /\ runs["say_hello"] >= 2
    /\ rounds >= 1
    /\ Cardinality(Denizens) = 2

\* C2: each startup system runs exactly once and both have completed before
\* say_hello first runs; place_denizens runs before spawn_denizens, so
\* whenever spawn_denizens runs the directory already holds its three entries.
C2_StartupOrder ==
    /\ runs["place_denizens"] <= 1 /\ runs["spawn_denizens"] <= 1
    /\ (stage = "update" \/ runs["say_hello"] > 0) =>
           runs["place_denizens"] = 1 /\ runs["spawn_denizens"] = 1
    /\ (Current = "spawn_denizens" \/ runs["spawn_denizens"] > 0) =>
           runs["place_denizens"] = 1
    /\ Current = "spawn_denizens" => Cardinality(DOMAIN directory) = 3
    /\ spawnPc = "loop" =>
           Len(commands) + Cardinality(DOMAIN iter) = 3

\* C2 witness: spawn_denizens has just cloned the directory, all three
\* entries still to be iterated.
C2_Witness ==
    /\ Current = "spawn_denizens"
    /\ spawnPc = "loop"
    /\ DOMAIN iter = {"Alice", "Bevy", "Cart"}
    /\ runs["place_denizens"] = 1

\* C3 as written: in a frame where the time accumulated since the latest
\* firing (or since start) is still below 2 seconds, nothing is printed.
C3_Original ==
    [][stage = "update" /\ sinceFire + delta' < Duration => printed' = <<>>]_vars

\* C3 (amended): a frame prints only if its tick reports just_finished; in
\* a frame where the timer's elapsed time (the time since the latest firing
\* plus the overshoot that firing carried over, or the time since start)
\* is still below 2 seconds with the frame's delta added, nothing is printed.
C3_PrintsOnlyWhenFinished ==
    [][stage = "update" =>
          /\ printed' # <<>> => timer'.just_finished
          /\ timer.elapsed + delta' < Duration => printed' = <<>>]_vars

\* C3 witness: after a firing, a frame that printed nothing because the
\* new interval is still running.
C3_Witness ==
    /\ rounds >= 1
    /\ delta > 0
    /\ printed = <<>>
    /\ ~timer.finished
    /\ timer.elapsed < Duration

\* C4: a firing prints exactly the greetings for (Alice, Venus) and
\* (Cart, Mars), one each, pairing each entity's own name with its own
\* world; no greeting for Bevy is ever printed.
C4_Greetings ==
    /\ (runs["say_hello"] > 0 /\ timer.just_finished) => printed # <<>>
    /\ printed # <<>> =>
           /\ Len(printed) = 2
           /\ {printed[i] : i \in 1..Len(printed)} =
                 {"Hello Venus, my name is Alice!", "Hello Mars, my name is Cart!"}
    /\ \A i \in 1..Len(printed) : \A w \in Worlds :
           printed[i] # "Hello " \o w \o ", my name is Bevy!"

\* C4 witness: a firing whose first greeting is Cart's.
C4_Witness ==
    /\ timer.just_finished
    /\ Len(printed) = 2
    /\ printed[1] = "Hello Mars, my name is Cart!"

\* The frame right after a firing prints only if a further full interval
\* has elapsed on the timer.
AfterFiring ==
    [][timer.just_finished /\ printed' # <<>> =>
          timer.elapsed + delta' >= Duration]_vars

C6_EntitiesFrozen ==
    /\ [][stage = "update" => entities' = entities]_vars
    /\ [][entities' # entities => stage = "startup" /\ stage' = "update"]_vars

\* C6 witness: after setup, a firing frame followed by a silent one.
C6_Witness ==
    /\ stage = "update"
    /\ Len(entities) = 3
    /\ rounds >= 1
    /\ printed = <<>>
    /\ timer.finished

\* C7: place_denizens populates the directory once, with exactly
\* Alice->Venus, Bevy->Earth, Cart->Mars; from its end on the directory
\* never changes (spawn_denizens iterates over a clone, say_hello does not
\* touch it).
C7_DirectoryFixed ==
    /\ runs["place_denizens"] <= 1
    /\ runs["place_denizens"] = 0 =>
           /\ DOMAIN directory = {placements[i][1] : i \in 1..placeI}
           /\ runs["spawn_denizens"] = 0 /\ runs["say_hello"] = 0
    /\ runs["place_denizens"] >= 1 => directory = TheDirectory

\* C7 witness: spawn_denizens has consumed its clone and frames have run,
\* the directory still complete.
C7_Witness ==
    /\ runs["spawn_denizens"] = 1
    /\ runs["say_hello"] >= 1
    /\ DOMAIN directory = {"Alice", "Bevy", "Cart"}

\* Everything spawn_denizens spawned: created entities, then queued spawns.
Spawned == entities \o commands

\* C8: spawn_denizens spawns exactly one entity per directory entry, with
\* the entry's Name and World, and with Denizen iff the name is not "Bevy";
\* no two entities share a Name, and the set of entities is the same for
\* every iteration order of the map.
C8_OnePerEntry ==
    runs["spawn_denizens"] >= 1 =>
        /\ Len(Spawned) = Cardinality(DOMAIN directory)
        /\ \A n \in DOMAIN directory :
              \E i \in 1..Len(Spawned) :
                 /\ Spawned[i].Name = n
                 /\ Spawned[i].World = directory[n]
                 /\ "Denizen" \in DOMAIN Spawned[i] <=> n # "Bevy"
                 /\ \A j \in 1..Len(Spawned) : Spawned[j].Name = n => j = i
        /\ {Spawned[i] : i \in 1..Len(Spawned)} =
              {[Name |-> "Alice", World |-> "Venus", Denizen |-> "Denizen"],
               [Name |-> "Bevy", World |-> "Earth"],
               [Name |-> "Cart", World |-> "Mars", Denizen |-> "Denizen"]}

\* C8 witness: the map yielded Cart first and Alice last.
C8_Witness ==
    /\ runs["spawn_denizens"] = 1
    /\ Len(commands) = 3
    /\ commands[1].Name = "Cart"
    /\ commands[3].Name = "Alice"

\* C9: spawns are queued: no entity exists while the startup systems run,
\* the three queued spawns are applied together before say_hello first
\* runs, and say_hello never sees zero, one or two of the three entities.
C9_SpawnsQueued ==
    /\ stage = "startup" => entities = <<>> /\ runs["say_hello"] = 0
    /\ stage = "update" => Len(entities) = 3 /\ commands = <<>>
    /\ Len(entities) \in {0, 3}

\* C9 witness: spawn_denizens is in its loop with two spawns queued and no
\* entity created.
C9_Witness ==
    /\ Current = "spawn_denizens"
    /\ Len(commands) = 2
    /\ entities = <<>>

\* C10: say_hello ticks the timer exactly once per frame and nothing else
\* writes it; a frame prints at most one round of greetings (at most one
\* per Denizen entity), even when its delta spans two or more intervals.
C10_OneRoundPerFrame ==
    /\ [][timer' # timer => stage = "update"]_vars
    /\ [][stage = "update" => timer' = tick(timer, delta')]_vars
    /\ [](/\ Len(printed) <= Cardinality(Denizens)
          /\ \A i, j \in 1..Len(printed) : printed[i] = printed[j] => i = j)

\* C10 witness: a frame whose delta spans two full intervals fired and
\* printed one round.
C10_Witness ==
    /\ delta >= 2 * Duration
    /\ timer.just_finished
    /\ Len(printed) = 2

====
